---- MODULE Spec2Model ----
(***************************************************************************)
(* Lifecycle of ltcdMain (src/ltcd.go): configuration, interrupt listener, *)
(* CPU profile, upgrades, block database, index drops, server start-up,    *)
(* hand-off on serverChan, wait for the interrupt, and the deferred        *)
(* actions that run, last registered first, when ltcdMain returns.         *)
(* main's own steps around the call, and the exit status of the process,   *)
(* are modelled as well.                                                   *)
(*                                                                         *)
(* Every call that is made is one step.  The calls are recorded, in order, *)
(* in the history variable calls, each with its result and with           *)
(* whether interruptedChan was already closed when the call began.         *)
(***************************************************************************)
EXTENDS Integers, Sequences, FiniteSets, TLC

\* Largest buffer capacity of the serverChan argument that is explored.
MaxChanCap == 1

VARIABLES
    pc,              \* position of ltcdMain
    cfg,             \* the configuration loadConfig yields (global cfg)
    serverChan,      \* the serverChan argument: nil, or a channel of some capacity
    chanBuf,         \* servers buffered in serverChan
    receiving,       \* a receiver is blocked in a receive on serverChan
    delivered,       \* number of servers a receiver took from serverChan
    interruptedChan, \* "none" before interruptListener, then "open", then "closed"
    defers,          \* deferred calls of ltcdMain, in order of registration
    dpc,             \* position inside the deferred server shutdown function
    db,              \* block database handle: "none", "open", "closed"
    server,          \* "none", "created", "started", "stopping", "shutdown"
    index,           \* which indexes the store holds: [addr, tx]
    dropOrder,       \* indexes removed from the store, in order of removal
    profiling,       \* CPU profile: "off", "on", "stopped", "closed"
    err,             \* ltcdMain's result: "pending", "nil", "err"
    calls,           \* history: calls made by main and ltcdMain, in order
    mainPc,          \* position of main
    exitStatus       \* exit status of the process, -1 while it runs

vars == <<pc, cfg, serverChan, chanBuf, receiving, delivered, interruptedChan,
          defers, dpc, db, server, index, dropOrder, profiling, err, calls,
          mainPc, exitStatus>>

\* The state of main, which no step of ltcdMain changes.
mainVars == <<mainPc, exitStatus>>

\* The state of ltcdMain, apart from its position and the call history.
ltcdVars == <<cfg, serverChan, chanBuf, receiving, delivered, interruptedChan,
              defers, dpc, db, server, index, dropOrder, profiling, err>>

\* ------------------------------------------------------------------------
\* Inputs

Configs == [DropAddrIndex : BOOLEAN, DropTxIndex : BOOLEAN, CPUProfile : BOOLEAN]

ServerChans == {[isNil |-> TRUE, cap |-> 0]}
                 \cup {[isNil |-> FALSE, cap |-> c] : c \in 0..MaxChanCap}

\* The address index relies on the transaction index.
IndexStates == {ix \in [addr : BOOLEAN, tx : BOOLEAN] : ix.addr => ix.tx}

\* ------------------------------------------------------------------------
\* Helpers

interrupted == interruptedChan = "closed"

\* One entry of the call history.
Call(op, ret) == [op |-> op, ret |-> ret, intr |-> interrupted]

Log(op, ret) == calls' = Append(calls, Call(op, ret))

\* The result of a call that may fail.
Results == {"nil", "err"}

\* A defer statement that would run the deferred calls in order of registration.
Defer_FirstInFirstOut(d, f) == <<f>> \o d

\* A defer statement: the call is registered after those already deferred.
Defer(d, f) == Append(d, f)

\* A successful open that would not register the close.
DeferDbClose_Missing(d) == d

\* defer func() { ...; db.Close() }(), registered once loadBlockDB succeeded.
DeferDbClose(d) == Defer(d, "dbClose")

\* The deferred call that runs next on return: the last one registered.
NextDeferred(d) == d[Len(d)]

Pop(d) == SubSeq(d, 1, Len(d) - 1)

\* interruptRequested: a test, without blocking, whether the channel is closed.
interruptRequested(ch) == ch = "closed"

\* A body of ltcdMain that would open the database before the upgrade.
NextStep_OpenFirst(p) ==
    CASE p = "loadConfig"        -> "interruptListener"
      [] p = "interruptListener" -> "cpuProfile"
      [] p = "cpuProfile"        -> "loadBlockDB"
      [] p = "loadBlockDB"       -> "checkpoint2"
      [] p = "checkpoint2"       -> "doUpgrades"
      [] p = "doUpgrades"        -> "checkpoint1"
      [] p = "checkpoint1"       -> "dropAddrIndex"
      [] p = "dropAddrIndex"     -> "dropTxIndex"
      [] p = "dropTxIndex"       -> "newServer"
      [] p = "newServer"         -> "serverStart"
      [] p = "serverStart"       -> "handoff"
      [] p = "handoff"           -> "waitInterrupt"

\* A body of ltcdMain that would hand the server over before starting it.
NextStep_SendBeforeStart(p) ==
    CASE p = "loadConfig"        -> "interruptListener"
      [] p = "interruptListener" -> "cpuProfile"
      [] p = "cpuProfile"        -> "doUpgrades"
      [] p = "doUpgrades"        -> "checkpoint1"
      [] p = "checkpoint1"       -> "loadBlockDB"
      [] p = "loadBlockDB"       -> "checkpoint2"
      [] p = "checkpoint2"       -> "dropAddrIndex"
      [] p = "dropAddrIndex"     -> "dropTxIndex"
      [] p = "dropTxIndex"       -> "newServer"
      [] p = "newServer"         -> "handoff"
      [] p = "handoff"           -> "serverStart"
      [] p = "serverStart"       -> "waitInterrupt"

\* The statement that follows a step of ltcdMain that neither returned nor
\* failed: the order of the steps in the body of ltcdMain.
NextStep(p) ==
    CASE p = "loadConfig"        -> "interruptListener"
      [] p = "interruptListener" -> "cpuProfile"
      [] p = "cpuProfile"        -> "doUpgrades"
      [] p = "doUpgrades"        -> "checkpoint1"
      [] p = "checkpoint1"       -> "loadBlockDB"
      [] p = "loadBlockDB"       -> "checkpoint2"
      [] p = "checkpoint2"       -> "dropAddrIndex"
      [] p = "dropAddrIndex"     -> "dropTxIndex"
      [] p = "dropTxIndex"       -> "newServer"
      [] p = "newServer"         -> "serverStart"
      [] p = "serverStart"       -> "handoff"
      [] p = "handoff"           -> "waitInterrupt"

\* An error check that would let a failed doUpgrades pass.
Aborts_UpgradeErrorIgnored(op, r) == r = "err" /\ op # "doUpgrades"

\* An error check that would let a failed loadBlockDB pass.
Aborts_OpenErrorIgnored(op, r) == r = "err" /\ op # "loadBlockDB"

\* if err != nil { return err }: a failed call ends the run.
Aborts(op, r) == r = "err"

\* A return statement of ltcdMain: fix the result, then run the deferred calls.
Return(e) == /\ pc' = "return"
             /\ err' = e

\* indexers.DropAddrIndex: removes the address index if present.
DropAddrIndexStore(ix) == [ix EXCEPT !.addr = FALSE]

DropAddrIndexOrder(ix, o) == IF ix.addr THEN Append(o, "addr") ELSE o

\* indexers.DropTxIndex: removes the address index first, then the
\* transaction index.
DropTxIndexStore(ix) == [addr |-> FALSE, tx |-> FALSE]

DropTxIndexOrder(ix, o) ==
    LET o1 == DropAddrIndexOrder(ix, o)
    IN  IF ix.tx THEN Append(o1, "tx") ELSE o1

\* ------------------------------------------------------------------------
\* Initial state: main is about to run; ltcdMain has not been called

Init ==
    /\ pc = "notCalled"
    /\ mainPc = "SetLimits"
    /\ exitStatus = -1
    /\ cfg \in Configs
    /\ serverChan \in ServerChans
    /\ chanBuf = <<>>
    /\ receiving = FALSE
    /\ delivered = 0
    /\ interruptedChan = "none"
    /\ defers = <<>>
    /\ dpc = "begin"
    /\ db = "none"
    /\ server = "none"
    /\ index \in IndexStates
    /\ dropOrder = <<>>
    /\ profiling = "off"
    /\ err = "pending"
    /\ calls = <<>>

\* ------------------------------------------------------------------------
\* Steps of main

\* A main whose test of the result of ltcdMain would be inverted.
ExitStatusOf_Inverted(e) == IF e = "err" THEN 0 ELSE 1

\* The exit status main chooses from the result of ltcdMain(nil):
\* os.Exit(1) on an error, else main returns and the status is 0.
ExitStatusOf(e) == IF e = "err" THEN 1 ELSE 0

\* if err := limits.SetLimits(); err != nil { os.Exit(1) }
MainSetLimits ==
    /\ mainPc = "SetLimits"
    /\ \E r \in Results :
         /\ Log("SetLimits", r)
         /\ IF r = "err"
            THEN /\ exitStatus' = 1
                 /\ mainPc' = "exited"
            ELSE /\ mainPc' = "winServiceMain"
                 /\ UNCHANGED exitStatus
    /\ UNCHANGED pc
    /\ UNCHANGED ltcdVars

\* if runtime.GOOS == "windows" { isService, err := winServiceMain() ... }
\* then ltcdMain(nil).  Off Windows, or when not run as a service, main goes
\* on to call ltcdMain(nil); an error exits with status 1; as a service the
\* service code runs ltcdMain with its own serverChan before main exits.
MainWinService ==
    /\ mainPc = "winServiceMain"
    /\ \E r \in {"notWindows", "notService", "service", "err"} :
         CASE r = "notWindows" ->
                /\ serverChan.isNil
                /\ mainPc' = "ltcdMain"
                /\ pc' = "loadConfig"
                /\ UNCHANGED <<exitStatus, calls>>
           [] r = "notService" ->
                /\ serverChan.isNil
                /\ Log("winServiceMain", "nil")
                /\ mainPc' = "ltcdMain"
                /\ pc' = "loadConfig"
                /\ UNCHANGED exitStatus
           [] r = "service" ->
                /\ ~serverChan.isNil
                /\ mainPc' = "service"
                /\ pc' = "loadConfig"
                /\ UNCHANGED <<exitStatus, calls>>
           [] r = "err" ->
                /\ Log("winServiceMain", "err")
                /\ exitStatus' = 1
                /\ mainPc' = "exited"
                /\ UNCHANGED pc
    /\ UNCHANGED ltcdVars

\* if err := ltcdMain(nil); err != nil { os.Exit(1) }, else main returns
MainExit ==
    /\ mainPc = "ltcdMain"
    /\ pc = "done"
    /\ exitStatus' = ExitStatusOf(err)
    /\ mainPc' = "exited"
    /\ UNCHANGED <<pc, calls>>
    /\ UNCHANGED ltcdVars

\* if isService { os.Exit(0) }, once the service has run to its end
ServiceExit ==
    /\ mainPc = "service"
    /\ pc = "done"
    /\ exitStatus' = 0
    /\ mainPc' = "exited"
    /\ UNCHANGED <<pc, calls>>
    /\ UNCHANGED ltcdVars

\* ------------------------------------------------------------------------
\* Steps of ltcdMain

\* tcfg, _, err := loadConfig(); defer backendLog.Flush()
LoadConfig ==
    /\ pc = "loadConfig"
    /\ \E r \in Results :
         /\ Log("loadConfig", r)
         /\ IF Aborts("loadConfig", r)
            THEN /\ Return("err")
                 /\ UNCHANGED defers
            ELSE /\ pc' = NextStep(pc)
                 /\ defers' = Defer(defers, "Flush")
                 /\ UNCHANGED err
    /\ UNCHANGED <<cfg, serverChan, chanBuf, receiving, delivered,
                   interruptedChan, dpc, db, server, index, dropOrder,
                   profiling>>
    /\ UNCHANGED mainVars

\* interruptedChan := interruptListener(); defer ltcdLog.Info("Shutdown complete")
InterruptListener ==
    /\ pc = "interruptListener"
    /\ interruptedChan' = "open"
    /\ defers' = Defer(defers, "LogShutdownComplete")
    /\ calls' = Append(calls, Call("interruptListener", "void"))
    /\ pc' = NextStep(pc)
    /\ UNCHANGED <<cfg, serverChan, chanBuf, receiving, delivered, dpc, db,
                   server, index, dropOrder, profiling, err>>
    /\ UNCHANGED mainVars

\* A CPU profile set-up that would defer the two calls the other way round.
CPUProfile_DefersSwapped ==
    /\ pc = "cpuProfile"
    /\ IF cfg.CPUProfile
       THEN \E r \in Results :
              IF Aborts("os.Create", r)
              THEN /\ Log("os.Create", r)
                   /\ Return("err")
                   /\ UNCHANGED <<defers, profiling>>
              ELSE /\ calls' = calls \o <<Call("os.Create", r),
                                          Call("StartCPUProfile", "void")>>
                   /\ profiling' = "on"
                   /\ defers' = Defer(Defer(defers, "StopCPUProfile"), "f.Close")
                   /\ pc' = NextStep(pc)
                   /\ UNCHANGED err
       ELSE /\ pc' = NextStep(pc)
            /\ UNCHANGED <<defers, profiling, err, calls>>
    /\ UNCHANGED <<cfg, serverChan, chanBuf, receiving, delivered,
                   interruptedChan, dpc, db, server, index, dropOrder>>
    /\ UNCHANGED mainVars

\* if cfg.CPUProfile != "" { os.Create; pprof.StartCPUProfile; two defers }
CPUProfile ==
    /\ pc = "cpuProfile"
    /\ IF cfg.CPUProfile
       THEN \E r \in Results :
              IF Aborts("os.Create", r)
              THEN /\ Log("os.Create", r)
                   /\ Return("err")
                   /\ UNCHANGED <<defers, profiling>>
              ELSE /\ calls' = calls \o <<Call("os.Create", r),
                                          Call("StartCPUProfile", "void")>>
                   /\ profiling' = "on"
                   /\ defers' = Defer(Defer(defers, "f.Close"), "StopCPUProfile")
                   /\ pc' = NextStep(pc)
                   /\ UNCHANGED err
       ELSE /\ pc' = NextStep(pc)
            /\ UNCHANGED <<defers, profiling, err, calls>>
    /\ UNCHANGED <<cfg, serverChan, chanBuf, receiving, delivered,
                   interruptedChan, dpc, db, server, index, dropOrder>>
    /\ UNCHANGED mainVars

\* if err := doUpgrades(); err != nil { return err }
DoUpgrades ==
    /\ pc = "doUpgrades"
    /\ \E r \in Results :
         /\ Log("doUpgrades", r)
         /\ IF Aborts("doUpgrades", r)
            THEN Return("err")
            ELSE /\ pc' = NextStep(pc)
                 /\ UNCHANGED err
    /\ UNCHANGED <<cfg, serverChan, chanBuf, receiving, delivered,
                   interruptedChan, defers, dpc, db, server, index, dropOrder,
                   profiling>>
    /\ UNCHANGED mainVars

\* A checkpoint before the open whose return would be missing.
Checkpoint1_NoReturn ==
    /\ pc = "checkpoint1"
    /\ Log("interruptRequested",
           IF interruptRequested(interruptedChan) THEN "true" ELSE "false")
    /\ pc' = NextStep(pc)
    /\ UNCHANGED <<cfg, serverChan, chanBuf, receiving, delivered,
                   interruptedChan, defers, dpc, db, server, index, dropOrder,
                   profiling, err>>
    /\ UNCHANGED mainVars

\* if interruptRequested(interruptedChan) { return nil }   (before the open)
Checkpoint1 ==
    /\ pc = "checkpoint1"
    /\ IF interruptRequested(interruptedChan)
       THEN /\ Log("interruptRequested", "true")
            /\ Return("nil")
       ELSE /\ Log("interruptRequested", "false")
            /\ pc' = NextStep(pc)
            /\ UNCHANGED err
    /\ UNCHANGED <<cfg, serverChan, chanBuf, receiving, delivered,
                   interruptedChan, defers, dpc, db, server, index, dropOrder,
                   profiling>>
    /\ UNCHANGED mainVars

\* db, err := loadBlockDB(); on success defer the function that closes db
LoadBlockDB ==
    /\ pc = "loadBlockDB"
    /\ \E r \in Results :
         /\ Log("loadBlockDB", r)
         /\ IF Aborts("loadBlockDB", r)
            THEN /\ Return("err")
                 /\ UNCHANGED <<db, defers>>
            ELSE /\ db' = "open"
                 /\ defers' = DeferDbClose(defers)
                 /\ pc' = NextStep(pc)
                 /\ UNCHANGED err
    /\ UNCHANGED <<cfg, serverChan, chanBuf, receiving, delivered,
                   interruptedChan, dpc, server, index, dropOrder, profiling>>
    /\ UNCHANGED mainVars

\* A checkpoint after the open whose return would be missing.
Checkpoint2_NoReturn ==
    /\ pc = "checkpoint2"
    /\ Log("interruptRequested",
           IF interruptRequested(interruptedChan) THEN "true" ELSE "false")
    /\ pc' = NextStep(pc)
    /\ UNCHANGED <<cfg, serverChan, chanBuf, receiving, delivered,
                   interruptedChan, defers, dpc, db, server, index, dropOrder,
                   profiling, err>>
    /\ UNCHANGED mainVars

\* if interruptRequested(interruptedChan) { return nil }   (after the open)
Checkpoint2 ==
    /\ pc = "checkpoint2"
    /\ IF interruptRequested(interruptedChan)
       THEN /\ Log("interruptRequested", "true")
            /\ Return("nil")
       ELSE /\ Log("interruptRequested", "false")
            /\ pc' = NextStep(pc)
            /\ UNCHANGED err
    /\ UNCHANGED <<cfg, serverChan, chanBuf, receiving, delivered,
                   interruptedChan, defers, dpc, db, server, index, dropOrder,
                   profiling>>
    /\ UNCHANGED mainVars

\* An address index drop whose failure would not end the run.
DropAddrIndex_ErrorIgnored ==
    /\ pc = "dropAddrIndex"
    /\ IF cfg.DropAddrIndex
       THEN \E r \in Results :
              /\ Log("DropAddrIndex", r)
              /\ IF r = "nil"
                 THEN /\ Return(r)
                      /\ index' = DropAddrIndexStore(index)
                      /\ dropOrder' = DropAddrIndexOrder(index, dropOrder)
                 ELSE /\ pc' = NextStep(pc)
                      /\ UNCHANGED <<index, dropOrder, err>>
       ELSE /\ pc' = NextStep(pc)
            /\ UNCHANGED <<index, dropOrder, err, calls>>
    /\ UNCHANGED <<cfg, serverChan, chanBuf, receiving, delivered,
                   interruptedChan, defers, dpc, db, server, profiling>>
    /\ UNCHANGED mainVars

\* if cfg.DropAddrIndex { err := indexers.DropAddrIndex(db); return err or nil }
DropAddrIndex ==
    /\ pc = "dropAddrIndex"
    /\ IF cfg.DropAddrIndex
       THEN \E r \in Results :
              /\ Log("DropAddrIndex", r)
              /\ Return(r)
              /\ IF r = "nil"
                 THEN /\ index' = DropAddrIndexStore(index)
                      /\ dropOrder' = DropAddrIndexOrder(index, dropOrder)
                 ELSE UNCHANGED <<index, dropOrder>>
       ELSE /\ pc' = NextStep(pc)
            /\ UNCHANGED <<index, dropOrder, err, calls>>
    /\ UNCHANGED <<cfg, serverChan, chanBuf, receiving, delivered,
                   interruptedChan, defers, dpc, db, server, profiling>>
    /\ UNCHANGED mainVars

\* A transaction index drop that would go on to the server after a
\* successful drop.
DropTxIndex_FallThrough ==
    /\ pc = "dropTxIndex"
    /\ IF cfg.DropTxIndex
       THEN \E r \in Results :
              /\ Log("DropTxIndex", r)
              /\ IF r = "nil"
                 THEN /\ index' = DropTxIndexStore(index)
                      /\ dropOrder' = DropTxIndexOrder(index, dropOrder)
                      /\ pc' = NextStep(pc)
                      /\ UNCHANGED err
                 ELSE /\ Return(r)
                      /\ UNCHANGED <<index, dropOrder>>
       ELSE /\ pc' = NextStep(pc)
            /\ UNCHANGED <<index, dropOrder, err, calls>>
    /\ UNCHANGED <<cfg, serverChan, chanBuf, receiving, delivered,
                   interruptedChan, defers, dpc, db, server, profiling>>
    /\ UNCHANGED mainVars

\* if cfg.DropTxIndex { err := indexers.DropTxIndex(db); return err or nil }
DropTxIndex ==
    /\ pc = "dropTxIndex"
    /\ IF cfg.DropTxIndex
       THEN \E r \in Results :
              /\ Log("DropTxIndex", r)
              /\ Return(r)
              /\ IF r = "nil"
                 THEN /\ index' = DropTxIndexStore(index)
                      /\ dropOrder' = DropTxIndexOrder(index, dropOrder)
                 ELSE UNCHANGED <<index, dropOrder>>
       ELSE /\ pc' = NextStep(pc)
            /\ UNCHANGED <<index, dropOrder, err, calls>>
    /\ UNCHANGED <<cfg, serverChan, chanBuf, receiving, delivered,
                   interruptedChan, defers, dpc, db, server, profiling>>
    /\ UNCHANGED mainVars

\* server, err := newServer(...); on success defer the server shutdown function
NewServer ==
    /\ pc = "newServer"
    /\ \E r \in Results :
         /\ Log("newServer", r)
         /\ IF Aborts("newServer", r)
            THEN /\ Return("err")
                 /\ UNCHANGED <<server, defers>>
            ELSE /\ server' = "created"
                 /\ defers' = Defer(defers, "serverShutdown")
                 /\ pc' = NextStep(pc)
                 /\ UNCHANGED err
    /\ UNCHANGED <<cfg, serverChan, chanBuf, receiving, delivered,
                   interruptedChan, dpc, db, index, dropOrder, profiling>>
    /\ UNCHANGED mainVars

\* server.Start()
ServerStart ==
    /\ pc = "serverStart"
    /\ server' = "started"
    /\ Log("Start", "void")
    /\ pc' = NextStep(pc)
    /\ UNCHANGED <<cfg, serverChan, chanBuf, receiving, delivered,
                   interruptedChan, defers, dpc, db, index, dropOrder,
                   profiling, err>>
    /\ UNCHANGED mainVars

\* if serverChan != nil is false: nothing is sent
SkipSend ==
    /\ pc = "handoff"
    /\ serverChan.isNil
    /\ pc' = NextStep(pc)
    /\ UNCHANGED <<cfg, serverChan, chanBuf, receiving, delivered,
                   interruptedChan, defers, dpc, db, server, index, dropOrder,
                   profiling, err, calls>>
    /\ UNCHANGED mainVars

\* serverChan <- server: completes only when a receiver is waiting or the
\* channel has room; otherwise ltcdMain stays blocked here.
SendServer ==
    /\ pc = "handoff"
    /\ ~serverChan.isNil
    /\ receiving \/ Len(chanBuf) < serverChan.cap
    /\ IF receiving
       THEN /\ receiving' = FALSE
            /\ delivered' = delivered + 1
            /\ UNCHANGED chanBuf
       ELSE /\ chanBuf' = Append(chanBuf, "server")
            /\ UNCHANGED <<receiving, delivered>>
    /\ Log("send", "void")
    /\ pc' = NextStep(pc)
    /\ UNCHANGED <<cfg, serverChan, interruptedChan, defers, dpc, db, server,
                   index, dropOrder, profiling, err>>
    /\ UNCHANGED mainVars

\* A final wait that would not wait for interruptedChan.
WaitInterrupt_NoWait ==
    /\ pc = "waitInterrupt"
    /\ Return("nil")
    /\ UNCHANGED <<cfg, serverChan, chanBuf, receiving, delivered,
                   interruptedChan, defers, dpc, db, server, index, dropOrder,
                   profiling, calls>>
    /\ UNCHANGED mainVars

\* <-interruptedChan; return nil
WaitInterrupt ==
    /\ pc = "waitInterrupt"
    /\ interrupted
    /\ Return("nil")
    /\ UNCHANGED <<cfg, serverChan, chanBuf, receiving, delivered,
                   interruptedChan, defers, dpc, db, server, index, dropOrder,
                   profiling, calls>>
    /\ UNCHANGED mainVars

\* ------------------------------------------------------------------------
\* Deferred calls, run on return, last registered first

\* deferred server shutdown, first half: server.Stop()
DeferredServerStop ==
    /\ pc = "return"
    /\ defers # <<>>
    /\ NextDeferred(defers) = "serverShutdown"
    /\ dpc = "begin"
    /\ server' = "stopping"
    /\ Log("Stop", "void")
    /\ dpc' = "wait"
    /\ UNCHANGED <<pc, cfg, serverChan, chanBuf, receiving, delivered,
                   interruptedChan, defers, db, index, dropOrder, profiling,
                   err>>
    /\ UNCHANGED mainVars

\* deferred server shutdown, second half: server.WaitForShutdown() returns
DeferredServerWait ==
    /\ pc = "return"
    /\ defers # <<>>
    /\ NextDeferred(defers) = "serverShutdown"
    /\ dpc = "wait"
    /\ server' = "shutdown"
    /\ Log("WaitForShutdown", "void")
    /\ dpc' = "begin"
    /\ defers' = Pop(defers)
    /\ UNCHANGED <<pc, cfg, serverChan, chanBuf, receiving, delivered,
                   interruptedChan, db, index, dropOrder, profiling, err>>
    /\ UNCHANGED mainVars

\* deferred db.Close(): its result is not looked at
DeferredDbClose ==
    /\ pc = "return"
    /\ defers # <<>>
    /\ NextDeferred(defers) = "dbClose"
    /\ \E r \in Results : Log("Close", r)
    /\ db' = "closed"
    /\ defers' = Pop(defers)
    /\ UNCHANGED <<pc, cfg, serverChan, chanBuf, receiving, delivered,
                   interruptedChan, dpc, server, index, dropOrder, profiling,
                   err>>
    /\ UNCHANGED mainVars

\* deferred pprof.StopCPUProfile()
DeferredStopCPUProfile ==
    /\ pc = "return"
    /\ defers # <<>>
    /\ NextDeferred(defers) = "StopCPUProfile"
    /\ profiling' = "stopped"
    /\ Log("StopCPUProfile", "void")
    /\ defers' = Pop(defers)
    /\ UNCHANGED <<pc, cfg, serverChan, chanBuf, receiving, delivered,
                   interruptedChan, dpc, db, server, index, dropOrder, err>>
    /\ UNCHANGED mainVars

\* deferred f.Close() of the CPU profile file
DeferredProfileFileClose ==
    /\ pc = "return"
    /\ defers # <<>>
    /\ NextDeferred(defers) = "f.Close"
    /\ profiling' = "closed"
    /\ Log("f.Close", "void")
    /\ defers' = Pop(defers)
    /\ UNCHANGED <<pc, cfg, serverChan, chanBuf, receiving, delivered,
                   interruptedChan, dpc, db, server, index, dropOrder, err>>
    /\ UNCHANGED mainVars

\* deferred ltcdLog.Info("Shutdown complete")
DeferredLogShutdownComplete ==
    /\ pc = "return"
    /\ defers # <<>>
    /\ NextDeferred(defers) = "LogShutdownComplete"
    /\ Log("LogShutdownComplete", "void")
    /\ defers' = Pop(defers)
    /\ UNCHANGED <<pc, cfg, serverChan, chanBuf, receiving, delivered,
                   interruptedChan, dpc, db, server, index, dropOrder,
                   profiling, err>>
    /\ UNCHANGED mainVars

\* deferred backendLog.Flush()
DeferredFlush ==
    /\ pc = "return"
    /\ defers # <<>>
    /\ NextDeferred(defers) = "Flush"
    /\ Log("Flush", "void")
    /\ defers' = Pop(defers)
    /\ UNCHANGED <<pc, cfg, serverChan, chanBuf, receiving, delivered,
                   interruptedChan, dpc, db, server, index, dropOrder,
                   profiling, err>>
    /\ UNCHANGED mainVars

\* no deferred call is left: ltcdMain has returned to its caller
Returned ==
    /\ pc = "return"
    /\ defers = <<>>
    /\ pc' = "done"
    /\ UNCHANGED <<cfg, serverChan, chanBuf, receiving, delivered,
                   interruptedChan, defers, dpc, db, server, index, dropOrder,
                   profiling, err, calls>>
    /\ UNCHANGED mainVars

\* ------------------------------------------------------------------------
\* Environment

\* A shutdown signal arrives: the listener closes interruptedChan.
Interrupt ==
    /\ interruptedChan = "open"
    /\ interruptedChan' = "closed"
    /\ UNCHANGED <<pc, cfg, serverChan, chanBuf, receiving, delivered, defers,
                   dpc, db, server, index, dropOrder, profiling, err, calls>>
    /\ UNCHANGED mainVars

\* The holder of the other end of serverChan receives from it: it takes a
\* buffered server, or blocks until ltcdMain sends.
Receive ==
    /\ ~serverChan.isNil
    /\ ~receiving
    /\ IF chanBuf # <<>>
       THEN /\ chanBuf' = Tail(chanBuf)
            /\ delivered' = delivered + 1
            /\ UNCHANGED receiving
       ELSE /\ receiving' = TRUE
            /\ UNCHANGED <<chanBuf, delivered>>
    /\ UNCHANGED <<pc, cfg, serverChan, interruptedChan, defers, dpc, db,
                   server, index, dropOrder, profiling, err, calls>>
    /\ UNCHANGED mainVars

\* ------------------------------------------------------------------------
\* Specifications

\* The steps ltcdMain itself takes.
LtcdMain ==
    \/ LoadConfig
    \/ InterruptListener
    \/ CPUProfile
    \/ DoUpgrades
    \/ Checkpoint1
    \/ LoadBlockDB
    \/ Checkpoint2
    \/ DropAddrIndex
    \/ DropTxIndex
    \/ NewServer
    \/ ServerStart
    \/ SkipSend
    \/ SendServer
    \/ WaitInterrupt
    \/ DeferredServerStop
    \/ DeferredServerWait
    \/ DeferredDbClose
    \/ DeferredStopCPUProfile
    \/ DeferredProfileFileClose
    \/ DeferredLogShutdownComplete
    \/ DeferredFlush
    \/ Returned

\* The steps main takes around ltcdMain.
Main ==
    \/ MainSetLimits
    \/ MainWinService
    \/ MainExit
    \/ ServiceExit

Next ==
    \/ Main
    \/ LtcdMain
    \/ Interrupt
    \/ Receive

Spec == Init /\ [][Next]_vars

\* ltcdMain's goroutine keeps running while it has a step to take; nothing
\* obliges a signal to arrive or anybody to receive from serverChan.
FairSpec == Spec /\ WF_vars(LtcdMain) /\ WF_vars(Main)

\* ------------------------------------------------------------------------
\* Type invariant

TypeOK ==
    /\ mainPc \in {"SetLimits", "winServiceMain", "ltcdMain", "service",
                   "exited"}
    /\ exitStatus \in {-1, 0, 1}
    /\ pc \in {"notCalled", "loadConfig", "interruptListener", "cpuProfile", "doUpgrades",
               "checkpoint1", "loadBlockDB", "checkpoint2", "dropAddrIndex",
               "dropTxIndex", "newServer", "serverStart", "handoff",
               "waitInterrupt", "return", "done"}
    /\ cfg \in Configs
    /\ serverChan \in ServerChans
    /\ Len(chanBuf) <= serverChan.cap
    /\ receiving \in BOOLEAN
    /\ delivered \in 0..1
    /\ interruptedChan \in {"none", "open", "closed"}
    /\ dpc \in {"begin", "wait"}
    /\ db \in {"none", "open", "closed"}
    /\ server \in {"none", "created", "started", "stopping", "shutdown"}
    /\ index \in IndexStates
    /\ profiling \in {"off", "on", "stopped", "closed"}
    /\ err \in {"pending", "nil", "err"}

\* ------------------------------------------------------------------------
\* Reading the call history

Ops(o) == {i \in DOMAIN calls : calls[i].op = o}

Called(o) == Ops(o) # {}

Succeeded(o) == \E i \in Ops(o) : calls[i].ret = "nil"

Failed(o) == \E i \in Ops(o) : calls[i].ret = "err"

Count(o) == Cardinality(Ops(o))

\* Some call of o that returned without error comes before position i.
SucceededBefore(o, i) == \E j \in Ops(o) : j < i /\ calls[j].ret = "nil"

\* ------------------------------------------------------------------------
\* C1: db.Close is called exactly once before ltcdMain returns on every
\* path on which loadBlockDB returned a handle, and is never called on a
\* path on which loadBlockDB was not reached or failed.
C1_CloseExactlyOnce ==
    /\ Count("Close") <= 1
    /\ Called("Close") => Succeeded("loadBlockDB")
    /\ pc = "done" =>
         /\ Count("Close") = (IF Succeeded("loadBlockDB") THEN 1 ELSE 0)
         /\ db = (IF Succeeded("loadBlockDB") THEN "closed" ELSE "none")

\* A run that opened the database, failed in newServer and has returned.
C1_Witness ==
    /\ pc = "done"
    /\ Failed("newServer")
    /\ Count("Close") = 1

\* C2: once server.Start was called the shutdown is server.Stop, then
\* server.WaitForShutdown, then db.Close; while the server is started and
\* not yet fully shut down the database handle is open.
C2_ServerStopsBeforeClose ==
    /\ server \in {"started", "stopping"} => db = "open"
    /\ Called("Start") =>
         \A c \in Ops("Close") :
           \E st \in Ops("Start"), sp \in Ops("Stop"), w \in Ops("WaitForShutdown") :
             st < sp /\ sp < w /\ w < c
    /\ (pc = "done" /\ Called("Start")) =>
         /\ Count("Stop") = 1
         /\ Count("WaitForShutdown") = 1
         /\ Count("Close") = 1

\* A run that started the server and has returned.
C2_Witness ==
    /\ pc = "done"
    /\ Called("Start")
    /\ db = "closed"
    /\ server = "shutdown"

C4_StoreUsedOnlyAfterUpgradeAndOpen ==
    \A i \in DOMAIN calls :
      calls[i].op \in {"DropAddrIndex", "DropTxIndex", "newServer", "Start"} =>
        /\ SucceededBefore("doUpgrades", i)
        /\ SucceededBefore("loadBlockDB", i)

\* A run in which an index drop, or the server start, has happened.
C4_Witness ==
    /\ Called("Start")
    /\ Succeeded("doUpgrades")
    /\ Succeeded("loadBlockDB")

\* The deferred calls: what the shutdown sequence consists of.
ShutdownOps == {"Stop", "WaitForShutdown", "Close", "StopCPUProfile",
                "f.Close", "LogShutdownComplete", "Flush"}

\* The startup steps an interrupt is meant to skip.
StartupOps == {"loadBlockDB", "DropAddrIndex", "DropTxIndex", "newServer",
               "Start"}

\* Number of interrupt checkpoints that found no interrupt.
CheckpointsPassed ==
    Cardinality({i \in Ops("interruptRequested") : calls[i].ret = "false"})

DropRequested == cfg.DropAddrIndex \/ cfg.DropTxIndex

\* C5: when cfg.DropAddrIndex or cfg.DropTxIndex is set, ltcdMain never
\* calls newServer or server.Start and sends nothing on serverChan; a run
\* that reaches the maintenance step performs one drop and returns right
\* after it, whether the drop succeeded or failed.
C5_MaintenanceRunNeverServes ==
    DropRequested =>
      /\ ~Called("newServer") /\ ~Called("Start") /\ ~Called("send")
      /\ server = "none" /\ chanBuf = <<>> /\ delivered = 0
      /\ (Called("DropAddrIndex") \/ Called("DropTxIndex")) =>
           pc \in {"return", "done"}
      /\ (CheckpointsPassed = 2 /\ pc \in {"return", "done"}) =>
           Count("DropAddrIndex") + Count("DropTxIndex") = 1

\* A maintenance run whose drop failed and that has returned.
C5_Witness ==
    /\ pc = "done"
    /\ cfg.DropTxIndex
    /\ Failed("DropTxIndex")

\* C6: whenever cfg.DropTxIndex is set, a run that reaches the maintenance
\* step and returns without error leaves both indexes absent, the address
\* index having been dropped first.
C6_TxDropRemovesBothIndexes ==
    (pc = "done" /\ cfg.DropTxIndex /\ CheckpointsPassed = 2 /\ err = "nil") =>
      /\ ~index.addr
      /\ ~index.tx
      /\ \A i, j \in DOMAIN dropOrder :
           (dropOrder[i] = "addr" /\ dropOrder[j] = "tx") => i < j

\* C7 as stated: once interruptedChan is closed no startup step that has
\* not yet begun is started.
C7_NoStartupStepAfterInterrupt ==
    \A i \in DOMAIN calls : calls[i].op \in StartupOps => ~calls[i].intr

\* C7 as the code has it: the interrupt is looked at only at the two
\* checkpoints.  A checkpoint reports the interrupt exactly when
\* interruptedChan was closed by then; after a checkpoint that reported it
\* no startup step is started, only the shutdown sequence runs, and
\* ltcdMain returns nil.  A run that passed both checkpoints goes on to the
\* drop or to newServer whatever happens to interruptedChan afterwards.
C7_InterruptSkipsAtCheckpoints ==
    /\ \A i \in Ops("interruptRequested") :
         /\ calls[i].ret = (IF calls[i].intr THEN "true" ELSE "false")
         /\ calls[i].ret = "true" =>
              /\ \A j \in DOMAIN calls : j > i => calls[j].op \in ShutdownOps
              /\ pc \in {"return", "done"}
              /\ err = "nil"
    /\ (CheckpointsPassed = 2 /\ pc \in {"return", "done"}) =>
         (Called("DropAddrIndex") \/ Called("DropTxIndex") \/ Called("newServer"))

\* A run interrupted while the database was being opened: the checkpoint
\* after the open reported it and the run has returned.
C7_Witness ==
    /\ pc = "done"
    /\ Succeeded("loadBlockDB")
    /\ \E i \in Ops("interruptRequested") : calls[i].ret = "true"
    /\ db = "closed"

\* C8: if doUpgrades or loadBlockDB returns an error, ltcdMain returns a
\* non-nil error, never calls newServer or server.Start, attempts no index
\* drop, and closes no handle, none having been opened; after a failed
\* doUpgrades loadBlockDB is never called.
C8_FatalErrorAbortsStartup ==
    (Failed("doUpgrades") \/ Failed("loadBlockDB")) =>
      /\ pc \in {"return", "done"}
      /\ err = "err"
      /\ ~Called("newServer") /\ ~Called("Start")
      /\ ~Called("DropAddrIndex") /\ ~Called("DropTxIndex")
      /\ server = "none"
      /\ db = "none" /\ ~Called("Close")
      /\ Failed("doUpgrades") => ~Called("loadBlockDB")

\* A run whose open failed and that has returned.
C8_Witness ==
    /\ pc = "done"
    /\ Failed("loadBlockDB")
    /\ err = "err"

\* C9: if loadBlockDB, DropAddrIndex, DropTxIndex or db.Close fails,
\* ltcdMain returns a non-nil error.
C9_StoreErrorsReturned ==
    (pc = "done" /\ (Failed("loadBlockDB") \/ Failed("DropAddrIndex")
                       \/ Failed("DropTxIndex") \/ Failed("Close"))) =>
      err = "err"

\* C10: whenever the interrupt is raised, ltcdMain eventually returns with
\* the server stopped and the database closed, for every serverChan.
C10_InterruptLeadsToReturn ==
    interrupted ~> (/\ pc = "done"
                    /\ server \in {"none", "shutdown"}
                    /\ db \in {"none", "closed"})

\* C11: if interruptedChan is closed when the checkpoint after doUpgrades is
\* reached, ltcdMain returns nil without calling loadBlockDB, so no handle
\* is opened or closed; if it is closed when the checkpoint after
\* loadBlockDB is reached, ltcdMain returns nil after closing the database,
\* with no index drop and no server, even when a drop flag is set.
C11_InterruptCheckpoints ==
    \A i \in Ops("interruptRequested") :
      calls[i].intr =>
        /\ pc \in {"return", "done"}
        /\ err = "nil"
        /\ ~Called("DropAddrIndex") /\ ~Called("DropTxIndex")
        /\ ~Called("newServer") /\ ~Called("Start")
        /\ server = "none"
        /\ IF calls[i - 1].op = "doUpgrades"
           THEN /\ ~Called("loadBlockDB")
                /\ db = "none"
                /\ ~Called("Close")
           ELSE /\ calls[i - 1].op = "loadBlockDB"
                /\ pc = "done" => (db = "closed" /\ Count("Close") = 1)

\* A run with a drop flag set, interrupted before the checkpoint after the
\* open, that has returned.
C11_Witness ==
    /\ pc = "done"
    /\ DropRequested
    /\ Succeeded("loadBlockDB")
    /\ calls[Len(calls)].op = "Flush"
    /\ \E i \in Ops("interruptRequested") : calls[i].intr
    /\ err = "nil"

\* C12: when no drop flag is set and every startup step succeeded, then as
\* long as interruptedChan is not closed ltcdMain has not returned and has
\* called neither server.Stop nor db.Close; a started server is shut down
\* only after the interrupt.
C12_ServingUntilInterrupted ==
    /\ (~DropRequested /\ ~interrupted /\ \A i \in DOMAIN calls : calls[i].ret # "err") =>
         /\ pc \notin {"return", "done"}
         /\ ~Called("Stop")
         /\ ~Called("Close")
    /\ Called("Stop") => interrupted
    /\ \A i \in Ops("Stop") : calls[i].intr

\* The server is started, ltcdMain waits, and no interrupt has arrived.
C12_Witness ==
    /\ pc = "waitInterrupt"
    /\ server = "started"
    /\ db = "open"
    /\ ~interrupted

\* C13: the server is sent on serverChan at most once, only when serverChan
\* is non-nil, only after newServer succeeded and server.Start was called,
\* and before ltcdMain waits for the interrupt; if newServer fails nothing
\* is sent and server.Stop is never called.
C13_ServerHandOff ==
    /\ Count("send") <= 1
    /\ Len(chanBuf) + delivered = Count("send")
    /\ Called("send") => ~serverChan.isNil
    /\ \A s \in Ops("send") :
         /\ SucceededBefore("newServer", s)
         /\ \E st \in Ops("Start") : st < s
    /\ (pc = "waitInterrupt" /\ ~serverChan.isNil) => Called("send")
    /\ (pc = "waitInterrupt" /\ serverChan.isNil) => ~Called("send")
    /\ Failed("newServer") => (~Called("send") /\ ~Called("Stop"))

\* The server was handed to a receiver and ltcdMain waits for the interrupt.
C13_Witness ==
    /\ pc = "waitInterrupt"
    /\ Count("send") = 1
    /\ delivered = 1

\* One of the calls whose error ltcdMain returns has failed.
StartupFailure ==
    \/ Failed("loadConfig")
    \/ Failed("os.Create")
    \/ Failed("doUpgrades")
    \/ Failed("loadBlockDB")
    \/ Failed("DropAddrIndex")
    \/ Failed("DropTxIndex")
    \/ Failed("newServer")

\* The run was ended by an interrupt or by a successful index drop.
EndedByInterruptOrDrop ==
    \/ \E i \in Ops("interruptRequested") : calls[i].ret = "true"
    \/ Called("Stop")
    \/ Succeeded("DropAddrIndex")
    \/ Succeeded("DropTxIndex")

\* ltcdMain returns a non-nil error exactly when one of loadConfig, the CPU
\* profile file creation, doUpgrades, loadBlockDB, the requested index drop
\* or newServer failed, and nil after an interrupt or a successful drop.
ResultOfRun ==
    /\ pc \in {"return", "done"} =>
         /\ err \in {"nil", "err"}
         /\ err = "err" <=> StartupFailure
         /\ EndedByInterruptOrDrop => err = "nil"
    /\ pc \notin {"return", "done"} => (err = "pending" /\ ~StartupFailure)

\* C14 as stated: the result of ltcdMain is as above, and main exits with
\* status 1 exactly when ltcdMain returns a non-nil error.
C14_ExitOneOnlyOnLtcdMainError ==
    /\ ResultOfRun
    /\ mainPc = "exited" => (exitStatus = 1 <=> err = "err")

\* C14 as the code has it: the result of ltcdMain is as above; once main
\* has called ltcdMain(nil) it exits with status 1 exactly when ltcdMain
\* returns a non-nil error; main also exits with status 1, without calling
\* ltcdMain, when limits.SetLimits or winServiceMain fails.
C14_ResultAndExitStatus ==
    /\ ResultOfRun
    /\ (mainPc = "exited" /\ serverChan.isNil /\ Called("loadConfig")) =>
         (exitStatus = 1 <=> err = "err")
    /\ (mainPc = "exited" /\ ~Called("loadConfig")) =>
         /\ exitStatus = 1
         /\ Failed("SetLimits") \/ Failed("winServiceMain")
    /\ exitStatus = 1 =>
         (err = "err" \/ Failed("SetLimits") \/ Failed("winServiceMain"))
    /\ mainPc = "exited" <=> exitStatus # -1

\* main called ltcdMain, newServer failed, and the process exited with 1.
C14_Witness ==
    /\ mainPc = "exited"
    /\ exitStatus = 1
    /\ Failed("newServer")
    /\ err = "err"

\* C15: if DropAddrIndex or DropTxIndex returns an error, ltcdMain returns
\* that error, does not attempt the other drop, creates and starts no
\* server, and still closes the database exactly once.
C15_FailedDropOnlyEndsTheRun ==
    (Failed("DropAddrIndex") \/ Failed("DropTxIndex")) =>
      /\ pc \in {"return", "done"}
      /\ err = "err"
      /\ Count("DropAddrIndex") + Count("DropTxIndex") = 1
      /\ ~Called("newServer") /\ ~Called("Start")
      /\ server = "none"
      /\ Count("Close") <= 1
      /\ pc = "done" => (Count("Close") = 1 /\ db = "closed")
      /\ pc = "return" => (db = "open" <=> ~Called("Close"))

\* Both drops were requested, the address index drop failed, and the run
\* has returned with the database closed.
C15_Witness ==
    /\ pc = "done"
    /\ cfg.DropTxIndex
    /\ Failed("DropAddrIndex")
    /\ Count("Close") = 1

\* The deferred calls a finished run must have made, in the order in which
\* they must have been made.
ExpectedShutdown ==
    (IF Called("Start") THEN <<"Stop", "WaitForShutdown">> ELSE <<>>)
      \o (IF Succeeded("loadBlockDB") THEN <<"Close">> ELSE <<>>)
      \o (IF Called("StartCPUProfile") THEN <<"StopCPUProfile", "f.Close">> ELSE <<>>)
      \o <<"LogShutdownComplete", "Flush">>

\* The deferred calls made so far, in order.
ShutdownMade ==
    LET F[n \in 0..Len(calls)] ==
          IF n = 0 THEN <<>>
          ELSE IF calls[n].op \in ShutdownOps
               THEN Append(F[n - 1], calls[n].op)
               ELSE F[n - 1]
    IN  F[Len(calls)]

\* C16: on every return path of ltcdMain after loadConfig succeeded the
\* deferred actions run in reverse order of registration: server shutdown
\* (if started), db.Close (if opened), StopCPUProfile then the profile
\* file's Close (if profiling), the 'Shutdown complete' message, and
\* backendLog.Flush as the last action performed.
C16_DeferredOrder ==
    /\ (pc = "done" /\ Succeeded("loadConfig")) =>
         /\ ShutdownMade = ExpectedShutdown
         /\ calls[Len(calls)].op = "Flush"
         /\ \A i, j \in DOMAIN calls :
              (calls[i].op \in ShutdownOps /\ calls[j].op \notin ShutdownOps)
                => j < i
    /\ (pc = "return" /\ Succeeded("loadConfig")) =>
         /\ Len(ShutdownMade) <= Len(ExpectedShutdown)
         /\ ShutdownMade = SubSeq(ExpectedShutdown, 1, Len(ShutdownMade))
    /\ pc \notin {"return", "done"} => ShutdownMade = <<>>

\* A profiled run that started the server and has returned: all six
\* deferred actions have run, in seven calls.
C16_Witness ==
    /\ pc = "done"
    /\ Called("Start")
    /\ Called("StartCPUProfile")
    /\ Len(ShutdownMade) = 7

====
